---------------------------- MODULE Spec2Model ----------------------------
(***************************************************************************)
(* AnthroRouter: a gateway that re-expresses Anthropic-shaped chat         *)
(* requests as OpenRouter requests and transcodes the answers back.        *)
(*                                                                         *)
(* The module models, from the TypeScript sources,                         *)
(*   - the two stream transcoders (the Express handler of lib/auth.ts and  *)
(*     the edge TransformStream handler of                                 *)
(*     lib/anthropic-proxy/streaming-handler.ts), fed the same upstream    *)
(*     chunks (SpecStream; SpecStreamLive adds that the upstream body is   *)
(*     finite);                                                            *)
(*   - the admission layer: validateApiKey (SpecValidate), checkRateLimit  *)
(*     of the Express build (SpecRate) and of the edge build, whose hash   *)
(*     is awaited (SpecEdgeRate), and the two together for several keys    *)
(*     (SpecAdmission);                                                    *)
(*   - the request and response transcoders of request-handler.ts          *)
(*     (SpecTranscode);                                                    *)
(*   - the Express route that runs admission, transcoding and the upstream *)
(*     call for one request (SpecRoute).                                   *)
(***************************************************************************)
EXTENDS Integers, Sequences, FiniteSets, TLC

VARIABLES
  \* ---- stream transcoders
  upstream,     \* the bytes the upstream body will deliver, in order
  hasBody,      \* whether openRouterResponse.body is there
  rpos,         \* number of bytes of upstream already read
  pending,      \* bytes the streaming TextDecoder holds back
  pc,           \* position of handleStreamingResponse
  resWrites,    \* frames written with expressRes.write, in order
  resEnded,     \* number of expressRes.end() calls
  ctlQueue,     \* frames enqueued on the TransformStream controller, in order
  edgeState,    \* "open", "terminated" (flush ran) or "errored"
  \* ---- admission layer
  clock,        \* Date.now()
  env,          \* process.env: VALID_API_KEYS (split at the commas), NODE_ENV
  apiKeyCache,  \* Map key -> {valid, expiresAt}; <<>> where there is no entry
  rateLimitMap, \* Map keyHash -> {count, resetAt}; <<>> where there is no entry
  calls,        \* the asynchronous checkRateLimit calls in flight (edge build)
  ret,          \* what the last admission call returned
  hist,         \* bookkeeping of the calls made so far (not program state)
  \* ---- request / response transcoders
  request,      \* the source (Anthropic) request held by the handler
  response,     \* the upstream (OpenRouter) response (in the route: what
                \* fetch brought)
  built,        \* what the last transcoder call built
  \* ---- the Express route
  route         \* the request being served: position, api key, steps, answer

streamVars == <<upstream, hasBody, rpos, pending, pc, resWrites, resEnded,
                ctlQueue, edgeState>>
admissionVars == <<clock, env, apiKeyCache, rateLimitMap, calls, ret, hist>>
transcodeVars == <<request, response, built>>
routeVars == <<route>>
vars == <<streamVars, admissionVars, transcodeVars, routeVars>>

\* An optional value: <<>> when absent (undefined), <<v>> when present.
None == <<>>
Some(v) == <<v>>
IsSome(o) == o # <<>>
Get(o) == o[1]

(***************************************************************************)
(* Bounds of the model.                                                    *)
(***************************************************************************)
MaxStreamLen == 12  \* byte groups in one upstream stream
MaxTicks == 2       \* times the clock advances in one behaviour
MaxValidations == 3 \* validateApiKey calls in one behaviour
MaxCount == 102     \* calls let into one rate window (RATE_LIMIT + 2)
MaxMsgs == 2        \* messages of one source request

(***************************************************************************)
(* The wire text.  A stream is a sequence of byte groups: each element is  *)
(* a fragment of the wire text that the model never splits further; a      *)
(* chunk boundary may fall between any two elements.  "0xC3" "0xA9" are    *)
(* the two bytes of one UTF-8 character.                                   *)
(***************************************************************************)
NL == "\n"
DataPrefix == <<"data:", " ">>
DonePayload == <<"[DO", "NE]">>
ContentPayload == <<"{\"choices\":[{\"delta\":{\"content\":\"Hi\"}", "}]}">>
FinishPayload ==
  <<"{\"choices\":[{\"delta\":{},\"finish_reason\":\"stop\"}],\"usage\":{\"completion_tokens\":7}}">>
AccentPayloadBytes == <<"{\"choices\":[{\"delta\":{\"content\":\"", "0xC3", "0xA9", "\"}}]}">>
AccentPayload == <<"{\"choices\":[{\"delta\":{\"content\":\"", "U+00E9", "\"}}]}">>
ContentFinishPayload ==
  <<"{\"choices\":[{\"delta\":{\"content\":\"!\"},\"finish_reason\":\"length\"}]}">>
MessagePayload ==
  <<"{\"id\":\"gen-1\",\"model\":\"upstream/model\",\"choices\":[{\"message\":{\"role\":\"assistant\"}}]}">>
MalformedPayload == <<"{\"choices\":[oops">>
NullPayload == <<"null">>
CommentLine == <<": OPENROUTER PROCESSING">>

\* One SSE frame on the wire: a line and the blank line that ends the frame.
Frame(line) == line \o <<NL, NL>>
DataFrameBytes(payload) == Frame(DataPrefix \o payload)

FrameKinds ==
  { DataFrameBytes(ContentPayload), DataFrameBytes(FinishPayload),
    DataFrameBytes(ContentFinishPayload), DataFrameBytes(MessagePayload),
    DataFrameBytes(AccentPayloadBytes), DataFrameBytes(MalformedPayload),
    DataFrameBytes(NullPayload), DataFrameBytes(DonePayload), Frame(CommentLine) }

RECURSIVE Concat(_)
Concat(ss) == IF ss = <<>> THEN <<>> ELSE Head(ss) \o Concat(Tail(ss))

\* Every stream of whole frames that is at most MaxStreamLen byte groups long
\* (the shortest frame, the comment, bounds the number of frames).
Streams ==
  { s \in UNION { { Concat(fs) : fs \in [1..n -> FrameKinds] } :
                    n \in 0..(MaxStreamLen \div Len(Frame(CommentLine))) } :
      Len(s) <= MaxStreamLen }

(***************************************************************************)
(* TextDecoder.decode(value, {stream: true}): complete UTF-8 sequences     *)
(* become characters, an incomplete trailing sequence is held back for the *)
(* next call, an invalid byte becomes U+FFFD.                              *)
(***************************************************************************)
RECURSIVE Utf8(_)
Utf8(bytes) ==
  IF bytes = <<>> THEN <<>>
  ELSE IF Head(bytes) = "0xC3"
    THEN IF Len(bytes) >= 2 /\ bytes[2] = "0xA9"
           THEN <<"U+00E9">> \o Utf8(SubSeq(bytes, 3, Len(bytes)))
           ELSE <<"U+FFFD">> \o Utf8(Tail(bytes))
  ELSE IF Head(bytes) = "0xA9" THEN <<"U+FFFD">> \o Utf8(Tail(bytes))
  ELSE <<Head(bytes)>> \o Utf8(Tail(bytes))

decode(held, value) ==
  LET bytes == held \o value
      cut == bytes # <<>> /\ bytes[Len(bytes)] = "0xC3"
  IN  [ text |-> Utf8(IF cut THEN SubSeq(bytes, 1, Len(bytes) - 1) ELSE bytes),
        held |-> IF cut THEN <<"0xC3">> ELSE <<>> ]

(***************************************************************************)
(* String.prototype.split('\n'): the pieces between the newlines; a text   *)
(* that ends with a newline yields a last piece that is empty.             *)
(***************************************************************************)
RECURSIVE split(_)
split(text) ==
  IF \A i \in 1..Len(text) : text[i] # NL THEN <<text>>
  ELSE LET i == CHOOSE j \in 1..Len(text) :
                  text[j] = NL /\ \A k \in 1..(j - 1) : text[k] # NL
       IN  <<SubSeq(text, 1, i - 1)>> \o split(SubSeq(text, i + 1, Len(text)))

startsWithData(line) == Len(line) >= 2 /\ SubSeq(line, 1, 2) = DataPrefix
slice6(line) == SubSeq(line, 3, Len(line))
\* line.trim() === '': nothing but white space
trimIsEmpty(line) == \A i \in 1..Len(line) : line[i] = " "

(***************************************************************************)
(* JSON.parse on the payloads a line of these streams can carry.  A whole  *)
(* payload of the frame universe parses to its value; every other text a   *)
(* line can hold after "data: " is a proper prefix of a payload (the       *)
(* chunk ended inside the line), which is not JSON: SyntaxError.           *)
(* A parsed frame: choices (<<>> when absent or empty), each choice with   *)
(* optional delta, message and finish_reason; optional usage, id, model.   *)
(***************************************************************************)
Choice(delta, message, finish) ==
  [delta |-> delta, message |-> message, finish_reason |-> finish]
Chunk(choices, usage) ==
  [isNull |-> FALSE, id |-> "gen-1", model |-> "upstream/model",
   choices |-> choices, usage |-> usage]
JsonNull ==
  [isNull |-> TRUE, id |-> "", model |-> "", choices |-> <<>>, usage |-> None]

Parsed(v) == [ok |-> TRUE, value |-> v]
SyntaxError == [ok |-> FALSE, value |-> JsonNull]

JSONparse(data) ==
  CASE data = ContentPayload ->
         Parsed(Chunk(<<Choice(Some([content |-> "Hi"]), None, None)>>, None))
    [] data = AccentPayload ->
         Parsed(Chunk(<<Choice(Some([content |-> "U+00E9"]), None, None)>>, None))
    [] data = FinishPayload ->
         Parsed(Chunk(<<Choice(Some([content |-> ""]), None, Some("stop"))>>,
                      Some([completion_tokens |-> 7])))
    [] data = ContentFinishPayload ->
         Parsed(Chunk(<<Choice(Some([content |-> "!"]), None, Some("length"))>>, None))
    [] data = MessagePayload ->
         Parsed(Chunk(<<Choice(None, Some([role |-> "assistant"]), None)>>, None))
    [] data = NullPayload -> Parsed(JsonNull)
    [] OTHER -> SyntaxError

(***************************************************************************)
(* mapFinishReason: the switch of lib/auth.ts and its two copies.          *)
(***************************************************************************)
mapFinishReason(openRouterReason) ==
  CASE openRouterReason = "stop" -> "end_turn"
    [] openRouterReason = "length" -> "max_tokens"
    [] openRouterReason = "content_filter" -> "stop_sequence"
    [] OTHER -> openRouterReason

\* StreamingResponseHandler.mapFinishReason (the edge stream transcoder)
edgeMapFinishReason(openRouterReason) ==
  CASE openRouterReason = "stop" -> "end_turn"
    [] openRouterReason = "length" -> "max_tokens"
    [] openRouterReason = "content_filter" -> "stop_sequence"
    [] OTHER -> openRouterReason

\* Mutant of handlerMapFinishReason: a reason outside the table ends the turn.
handlerMapFinishReasonDefaultEndTurn(openRouterReason) ==
  CASE openRouterReason = "stop" -> "end_turn"
    [] openRouterReason = "length" -> "max_tokens"
    [] openRouterReason = "content_filter" -> "stop_sequence"
    [] OTHER -> "end_turn"

\* AnthropicRequestHandler.mapFinishReason (the response transcoder)
handlerMapFinishReason(openRouterReason) ==
  CASE openRouterReason = "stop" -> "end_turn"
    [] openRouterReason = "length" -> "max_tokens"
    [] openRouterReason = "content_filter" -> "stop_sequence"
    [] OTHER -> openRouterReason

(***************************************************************************)
(* The source-schema events.                                               *)
(***************************************************************************)
ContentBlockDelta(text) ==
  [type |-> "content_block_delta", index |-> 0,
   delta |-> [type |-> "text_delta", text |-> text]]
MessageStart(id, model) ==
  [type |-> "message_start",
   message |-> [id |-> id, type |-> "message", role |-> "assistant",
                content |-> <<>>, model |-> model, stop_reason |-> None,
                stop_sequence |-> None,
                usage |-> [input_tokens |-> 0, output_tokens |-> 0]]]
MessageDelta(stopReason, outputTokens) ==
  [type |-> "message_delta",
   delta |-> [stop_reason |-> stopReason, stop_sequence |-> None],
   usage |-> [output_tokens |-> outputTokens]]
createAnthropicStreamEnd == [type |-> "message_stop"]

(***************************************************************************)
(* transformStreamChunk: None for null (no event), Some(event) otherwise.  *)
(* A JSON null has no property `choices`: reading it throws a TypeError,   *)
(* which the caller's try/catch around parse and transform catches.        *)
(* delta.content, message and finish_reason are tested for truthiness: an  *)
(* empty content counts as absent.                                         *)
(***************************************************************************)
transformStreamChunk(openRouterChunk) ==
  IF openRouterChunk.isNull THEN [threw |-> TRUE, event |-> None]
  ELSE IF openRouterChunk.choices = <<>> THEN [threw |-> FALSE, event |-> None]
  ELSE
    LET choice == openRouterChunk.choices[1] IN
    IF IsSome(choice.delta) /\ Get(choice.delta).content # ""
      THEN [threw |-> FALSE,
            event |-> Some(ContentBlockDelta(Get(choice.delta).content))]
    ELSE IF IsSome(choice.message)
      THEN [threw |-> FALSE,
            event |-> Some(MessageStart(openRouterChunk.id, openRouterChunk.model))]
    ELSE IF IsSome(choice.finish_reason) /\ Get(choice.finish_reason) # ""
      THEN [threw |-> FALSE,
            event |-> Some(MessageDelta(
                        mapFinishReason(Get(choice.finish_reason)),
                        IF IsSome(openRouterChunk.usage)
                          THEN Get(openRouterChunk.usage).completion_tokens
                          ELSE 0))]
    ELSE [threw |-> FALSE, event |-> None]

\* StreamingResponseHandler.transformStreamChunk: the same tests in the same
\* order, with the handler's own mapFinishReason.
edgeTransformStreamChunk(openRouterChunk) ==
  IF openRouterChunk.isNull THEN [threw |-> TRUE, event |-> None]
  ELSE IF openRouterChunk.choices = <<>> THEN [threw |-> FALSE, event |-> None]
  ELSE
    LET choice == openRouterChunk.choices[1] IN
    IF IsSome(choice.delta) /\ Get(choice.delta).content # ""
      THEN [threw |-> FALSE,
            event |-> Some(ContentBlockDelta(Get(choice.delta).content))]
    ELSE IF IsSome(choice.message)
      THEN [threw |-> FALSE,
            event |-> Some(MessageStart(openRouterChunk.id, openRouterChunk.model))]
    ELSE IF IsSome(choice.finish_reason) /\ Get(choice.finish_reason) # ""
      THEN [threw |-> FALSE,
            event |-> Some(MessageDelta(
                        edgeMapFinishReason(Get(choice.finish_reason)),
                        IF IsSome(openRouterChunk.usage)
                          THEN Get(openRouterChunk.usage).completion_tokens
                          ELSE 0))]
    ELSE [threw |-> FALSE, event |-> None]

(***************************************************************************)
(* What is written to the client: `data: ${JSON.stringify(event)}\n\n`,    *)
(* the edge handler's 'event: message_stop\n\n' and its '\n'.              *)
(***************************************************************************)
DataFrame(event) == [head |-> "data: ", json |-> Some(event), tail |-> "\n\n"]
EventStopFrame == [head |-> "event: message_stop", json |-> None, tail |-> "\n\n"]
BlankFrame == [head |-> "", json |-> None, tail |-> "\n"]

\* try { JSON.parse; transformStreamChunk; write } catch { skip }
ParsedLineWrites(data) ==
  LET parsed == JSONparse(data) IN
  IF ~parsed.ok THEN <<>>
  ELSE LET t == transformStreamChunk(parsed.value) IN
       IF t.threw \/ ~IsSome(t.event) THEN <<>>
       ELSE <<DataFrame(Get(t.event))>>

\* the same try/catch in the transform callback of the edge handler
EdgeParsedLineWrites(data) ==
  LET parsed == JSONparse(data) IN
  IF ~parsed.ok THEN <<>>
  ELSE LET t == edgeTransformStreamChunk(parsed.value) IN
       IF t.threw \/ ~IsSome(t.event) THEN <<>>
       ELSE <<DataFrame(Get(t.event))>>

\* One iteration of the for loop of handleStreamingResponse (Express).
ExpressLine(line) ==
  IF startsWithData(line)
    THEN IF slice6(line) = DonePayload
           THEN <<DataFrame([type |-> "message_stop"])>>
           ELSE ParsedLineWrites(slice6(line))
    ELSE <<>>

\* One iteration of the for loop of the transform callback (edge).
EdgeLine(line) ==
  IF startsWithData(line)
    THEN IF slice6(line) = DonePayload
           THEN <<DataFrame(createAnthropicStreamEnd), EventStopFrame>>
           ELSE EdgeParsedLineWrites(slice6(line))
    ELSE IF trimIsEmpty(line) THEN <<BlankFrame>> ELSE <<>>

\* a data line whose payload JSON.parse rejects
IsMalformed(line) ==
  /\ startsWithData(line)
  /\ slice6(line) # DonePayload
  /\ ~JSONparse(slice6(line)).ok

\* Mutant of ExpressLoop: the try/catch wraps the loop, so the first line
\* that fails to parse ends the processing of the chunk.
RECURSIVE ExpressLoopAbortsOnError(_)
ExpressLoopAbortsOnError(lines) ==
  IF lines = <<>> THEN <<>>
  ELSE IF IsMalformed(Head(lines)) THEN <<>>
  ELSE <<ExpressLine(Head(lines))>> \o ExpressLoopAbortsOnError(Tail(lines))

\* Mutant of ExpressLoop: the lines of a chunk are processed last to first.
RECURSIVE ExpressLoopLastFirst(_)
ExpressLoopLastFirst(lines) ==
  IF lines = <<>> THEN <<>>
  ELSE ExpressLoopLastFirst(Tail(lines)) \o <<ExpressLine(Head(lines))>>

\* The for loop over the lines of one chunk: per line, what it wrote.  A
\* failure inside the try of one iteration leaves the loop running.
RECURSIVE ExpressLoop(_)
ExpressLoop(lines) ==
  IF lines = <<>> THEN <<>>
  ELSE <<ExpressLine(Head(lines))>> \o ExpressLoop(Tail(lines))

RECURSIVE EdgeLoop(_)
EdgeLoop(lines) ==
  IF lines = <<>> THEN <<>>
  ELSE <<EdgeLine(Head(lines))>> \o EdgeLoop(Tail(lines))

(***************************************************************************)
(* The stream transcoders as a state machine.  Both handlers are fed the   *)
(* same chunks: handleStreamingResponse (Express) reads them in its while  *)
(* loop, the edge handler receives them in its transform callback.         *)
(***************************************************************************)
InitStream ==
  /\ hasBody \in BOOLEAN
  /\ upstream \in (IF hasBody THEN Streams ELSE {<<>>})
  /\ rpos = 0
  /\ pending = <<>>
  /\ pc = "start"
  /\ resWrites = <<>>
  /\ resEnded = 0
  /\ ctlQueue = <<>>
  /\ edgeState = "open"
  /\ clock = 0
  /\ env = None
  /\ apiKeyCache = None
  /\ rateLimitMap = None
  /\ calls = None
  /\ ret = None
  /\ hist = None
  /\ request = None
  /\ response = None
  /\ built = None
  /\ route = None

\* body?.getReader(): without a body the Express handler ends the response
\* and returns; the edge handler's body!.pipeThrough throws.
GetReader ==
  /\ pc = "start"
  /\ IF hasBody
       THEN /\ pc' = "reading"
            /\ UNCHANGED <<resEnded, edgeState>>
       ELSE /\ pc' = "returned"
            /\ resEnded' = resEnded + 1
            /\ edgeState' = "errored"
  /\ UNCHANGED <<upstream, hasBody, rpos, pending, resWrites, ctlQueue>>
  /\ UNCHANGED <<admissionVars, transcodeVars, routeVars>>

\* reader.read() delivers the next n bytes; the chunk is decoded, split and
\* its lines are processed, all before the next read.
ReadChunk(n) ==
  /\ pc = "reading"
  /\ rpos + n <= Len(upstream)
  /\ LET value == SubSeq(upstream, rpos + 1, rpos + n)
         d == decode(pending, value)
         lines == split(d.text)
     IN  /\ pending' = d.held
         /\ resWrites' = resWrites \o Concat(ExpressLoop(lines))
         /\ ctlQueue' = ctlQueue \o Concat(EdgeLoop(lines))
  /\ rpos' = rpos + n
  /\ UNCHANGED <<upstream, hasBody, pc, resEnded, edgeState>>
  /\ UNCHANGED <<admissionVars, transcodeVars, routeVars>>

\* read() reports done: the loop breaks, finally ends the response; the
\* edge stream's flush terminates the controller.
ReadDone ==
  /\ pc = "reading"
  /\ rpos = Len(upstream)
  /\ pc' = "returned"
  /\ resEnded' = resEnded + 1
  /\ edgeState' = "terminated"
  /\ UNCHANGED <<upstream, hasBody, rpos, pending, resWrites, ctlQueue>>
  /\ UNCHANGED <<admissionVars, transcodeVars, routeVars>>

\* Mutant of ReadThrows: there is no finally, a rejected read leaves the
\* response open.
ReadThrowsNoFinally ==
  /\ pc = "reading"
  /\ pc' = "returned"
  /\ edgeState' = "errored"
  /\ UNCHANGED <<upstream, hasBody, rpos, pending, resWrites, resEnded, ctlQueue>>
  /\ UNCHANGED <<admissionVars, transcodeVars, routeVars>>

\* read() rejects (the upstream connection broke): catch logs, finally ends
\* the response; the edge stream errors.
ReadThrows ==
  /\ pc = "reading"
  /\ pc' = "returned"
  /\ resEnded' = resEnded + 1
  /\ edgeState' = "errored"
  /\ UNCHANGED <<upstream, hasBody, rpos, pending, resWrites, ctlQueue>>
  /\ UNCHANGED <<admissionVars, transcodeVars, routeVars>>

NextStream ==
  \/ GetReader
  \/ \E n \in 1..Len(upstream) : ReadChunk(n)
  \/ ReadDone
  \/ ReadThrows

(***************************************************************************)
(* The admission layer (lib/auth.ts, lib/anthropic-proxy/auth.ts).         *)
(***************************************************************************)
CACHE_TTL == 5 * 60 * 1000
RATE_LIMIT == 100
RATE_WINDOW == 60 * 1000

\* An API key: its text, whether the text starts with 'sk-ant-', its length.
ApiKey(text, skAnt, length) == [text |-> text, skAnt |-> skAnt, length |-> length]
KeyTest == ApiKey("test-api-key-123", FALSE, 16)
KeyLong == ApiKey("sk-ant-REDACTED", TRUE, 41)
KeyShort == ApiKey("sk-ant-REDACTED", TRUE, 40)
KeyListed == ApiKey("customer-key-1", FALSE, 14)
Keys == {KeyTest, KeyLong, KeyShort, KeyListed}
KeyTexts == {k.text : k \in Keys}

\* Mutant of hashApiKey: the key itself is the key of the rate table.
hashApiKeyRaw(apiKey) == apiKey.text

\* SHA-256, hex: the digests of the four key texts.
hashApiKey(apiKey) ==
  CASE apiKey = KeyTest ->
         "a2e4ab0472c808a1ff2ce147ae4f6cd9ecd8bcc8a49c48350f97e6811ace7464"
    [] apiKey = KeyLong ->
         "71920972b132ad0b39ce4ccac07a87b834e0153dce554fd2a75afbc16d652a3b"
    [] apiKey = KeyShort ->
         "98745a2e333c9cc76a47aaa179a04f191316a1321494bdad354579076be2de86"
    [] apiKey = KeyListed ->
         "a0a10f48851a711885f06e152b005a8c2c1a1160d3c233a6b3d43852d25d911b"
Hashes == {hashApiKey(k) : k \in Keys}

Environments ==
  [VALID_API_KEYS : {{}, {KeyListed.text}}, NODE_ENV : {"development", "production"}]

\* The validity policy of validateApiKey.
isValidFormat(apiKey) == apiKey.skAnt /\ apiKey.length > 40
isInValidList(apiKey, e) == apiKey.text \in e.VALID_API_KEYS
isTestKey(apiKey) == apiKey.text = "test-api-key-123"
policy(apiKey, e) ==
  isValidFormat(apiKey) \/ isInValidList(apiKey, e) \/ isTestKey(apiKey)

\* Mutant of cacheHit: an entry is still served at the instant it expires.
cacheHitAtExpiry(cached, now) == IsSome(cached) /\ Get(cached).expiresAt >= now

\* Mutant of cacheHit: the comparison is turned round.
cacheHitReversed(cached, now) == IsSome(cached) /\ Get(cached).expiresAt < now

\* cached && cached.expiresAt > Date.now()
cacheHit(cached, now) == IsSome(cached) /\ Get(cached).expiresAt > now

\* Mutant of windowOver: a call made exactly at resetAt resets the window.
windowOverAtResetAt(limit, now) == ~IsSome(limit) \/ Get(limit).resetAt <= now

\* !limit || limit.resetAt < now
windowOver(limit, now) == ~IsSome(limit) \/ Get(limit).resetAt < now

\* Mutant of allowedAt: the limit itself is rejected.
allowedBelowLimit(count) == count < RATE_LIMIT

allowedAt(count) == count <= RATE_LIMIT
remainingAt(count) == IF RATE_LIMIT - count > 0 THEN RATE_LIMIT - count ELSE 0

\* Mutant of windowAfter: a call over the limit is not counted.
windowAfterCapped(limit, now) ==
  IF windowOver(limit, now)
    THEN [count |-> 0 + 1, resetAt |-> now + RATE_WINDOW]
    ELSE [count |-> IF Get(limit).count >= RATE_LIMIT THEN Get(limit).count
                    ELSE Get(limit).count + 1,
          resetAt |-> Get(limit).resetAt]

\* The window checkRateLimit leaves in the table: a fresh one when there is
\* none or it is over, then count++.
windowAfter(limit, now) ==
  IF windowOver(limit, now)
    THEN [count |-> 0 + 1, resetAt |-> now + RATE_WINDOW]
    ELSE [count |-> Get(limit).count + 1, resetAt |-> Get(limit).resetAt]

\* The setInterval callback: both tables lose the entries past their expiry.
sweptCache(cache, now) ==
  [t \in DOMAIN cache |->
     IF IsSome(cache[t]) /\ Get(cache[t]).expiresAt < now THEN None ELSE cache[t]]
\* Mutant of sweptLimits: the sweep evicts every window, running or not.
sweptLimitsAll(limits, now) == [h \in DOMAIN limits |-> None]

\* Mutant of sweptLimits: a window is evicted at the instant of its resetAt.
sweptLimitsAtResetAt(limits, now) ==
  [h \in DOMAIN limits |->
     IF IsSome(limits[h]) /\ Get(limits[h]).resetAt <= now THEN None ELSE limits[h]]

sweptLimits(limits, now) ==
  [h \in DOMAIN limits |->
     IF IsSome(limits[h]) /\ Get(limits[h]).resetAt < now THEN None ELSE limits[h]]

\* Date.now() moves on.
Tick(d) ==
  /\ hist.ticks < MaxTicks
  /\ clock' = clock + d
  /\ hist' = [hist EXCEPT !.ticks = @ + 1]
  /\ UNCHANGED <<env, apiKeyCache, rateLimitMap, calls, ret>>
  /\ UNCHANGED <<streamVars, transcodeVars, routeVars>>

Sweep ==
  /\ apiKeyCache' = sweptCache(apiKeyCache, clock)
  /\ rateLimitMap' = sweptLimits(rateLimitMap, clock)
  /\ UNCHANGED <<clock, env, calls, ret, hist>>
  /\ UNCHANGED <<streamVars, transcodeVars, routeVars>>

\* The operator changes the allow-list of the running process.
SetValidKeys(ks) ==
  /\ ks # env.VALID_API_KEYS
  /\ env' = [env EXCEPT !.VALID_API_KEYS = ks]
  /\ UNCHANGED <<clock, apiKeyCache, rateLimitMap, calls, ret, hist>>
  /\ UNCHANGED <<streamVars, transcodeVars, routeVars>>

(***************************************************************************)
(* validateApiKey.  ret records the call: its value, whether the policy    *)
(* ran (evaluated) and whether the usage line was logged; hist keeps, per  *)
(* key, the previous call and the previous evaluation of the policy.       *)
(***************************************************************************)
InitValidate ==
  /\ clock = 0
  /\ env \in Environments
  /\ apiKeyCache = [t \in KeyTexts |-> None]
  /\ rateLimitMap = [h \in Hashes |-> None]
  /\ calls = None
  /\ ret = None
  /\ hist = [ticks |-> 0, n |-> 0,
             last |-> [t \in KeyTexts |-> None],
             lastEval |-> [t \in KeyTexts |-> None]]
  /\ hasBody = FALSE
  /\ upstream = <<>>
  /\ rpos = 0
  /\ pending = <<>>
  /\ pc = "unused"
  /\ resWrites = <<>>
  /\ resEnded = 0
  /\ ctlQueue = <<>>
  /\ edgeState = "unused"
  /\ request = None
  /\ response = None
  /\ built = None
  /\ route = None

validateApiKey(apiKey) ==
  /\ hist.n < MaxValidations
  /\ LET cached == apiKeyCache[apiKey.text]
         hit == cacheHit(cached, clock)
         isValid == IF hit THEN Get(cached).valid ELSE policy(apiKey, env)
         call == [at |-> clock, value |-> isValid]
     IN  /\ apiKeyCache' =
               IF hit THEN apiKeyCache
               ELSE [apiKeyCache EXCEPT ![apiKey.text] =
                       Some([valid |-> isValid, expiresAt |-> clock + CACHE_TTL])]
         /\ ret' = Some([op |-> "validate", key |-> apiKey.text, at |-> clock,
                         value |-> isValid, evaluated |-> ~hit,
                         logged |-> (~hit /\ isValid /\ env.NODE_ENV = "development"),
                         prev |-> hist.last[apiKey.text],
                         prevEval |-> hist.lastEval[apiKey.text]])
         /\ hist' = [hist EXCEPT !.n = @ + 1,
                                 !.last[apiKey.text] = Some(call),
                                 !.lastEval[apiKey.text] =
                                    IF hit THEN @ ELSE Some(call)]
  /\ UNCHANGED <<clock, env, rateLimitMap, calls>>
  /\ UNCHANGED <<streamVars, transcodeVars, routeVars>>

NextValidate ==
  \/ \E k \in Keys : validateApiKey(k)
  \/ \E d \in {1, CACHE_TTL - 1} : Tick(d)
  \/ \E ks \in {{}, {KeyListed.text}} : SetValidKeys(ks)
  \/ Sweep

(***************************************************************************)
(* checkRateLimit of lib/auth.ts: no await inside, the call runs to its    *)
(* return in one step.  ret records the call, the window it found (before) *)
(* and the window it left in the table (window); hist counts, per key, the *)
(* calls since the call that opened the running 60-second window (opened,  *)
(* nth).                                                                   *)
(***************************************************************************)
RateKeys == {KeyTest}

InitRate ==
  /\ clock = 0
  /\ env = [VALID_API_KEYS |-> {}, NODE_ENV |-> "production"]
  /\ apiKeyCache = [t \in KeyTexts |-> None]
  /\ rateLimitMap = [h \in Hashes |-> None]
  /\ calls = None
  /\ ret = None
  /\ hist = [ticks |-> 0,
             opened |-> [t \in KeyTexts |-> None],
             nth |-> [t \in KeyTexts |-> 0]]
  /\ hasBody = FALSE
  /\ upstream = <<>>
  /\ rpos = 0
  /\ pending = <<>>
  /\ pc = "unused"
  /\ resWrites = <<>>
  /\ resEnded = 0
  /\ ctlQueue = <<>>
  /\ edgeState = "unused"
  /\ request = None
  /\ response = None
  /\ built = None
  /\ route = None

checkRateLimit(apiKey) ==
  LET now == clock
      keyHash == hashApiKey(apiKey)
      limit == rateLimitMap[keyHash]
      after == windowAfter(limit, now)
      opened == hist.opened[apiKey.text]
      restart == ~IsSome(opened) \/ now > Get(opened) + RATE_WINDOW
  IN  /\ (IF windowOver(limit, now) THEN TRUE ELSE Get(limit).count < MaxCount)
      /\ rateLimitMap' = [rateLimitMap EXCEPT ![keyHash] = Some(after)]
      /\ ret' = Some([op |-> "checkRate", key |-> apiKey.text, at |-> now,
                      allowed |-> allowedAt(after.count),
                      remaining |-> remainingAt(after.count),
                      resetAt |-> after.resetAt,
                      before |-> limit, window |-> after])
      /\ hist' = [hist EXCEPT
                    !.opened[apiKey.text] = IF restart THEN Some(now) ELSE @,
                    !.nth[apiKey.text] = IF restart THEN 1 ELSE @ + 1]
      /\ UNCHANGED <<clock, env, apiKeyCache, calls>>
      /\ UNCHANGED <<streamVars, transcodeVars, routeVars>>

NextRate ==
  \/ \E k \in RateKeys : checkRateLimit(k)
  \/ \E d \in {1, RATE_WINDOW} : Tick(d)
  \/ Sweep

(***************************************************************************)
(* checkRateLimit of lib/anthropic-proxy/auth.ts: Date.now() is read, then *)
(* the hash is awaited; the rest runs without a further await.  Several    *)
(* calls can be in flight: each keeps the `now` it read.  hist counts the  *)
(* calls that ran on the window now in the table (ran) and those of them   *)
(* that were allowed (let).                                                *)
(***************************************************************************)
Callers == {"c1", "c2"}

InitEdgeRate ==
  /\ clock = 0
  /\ env = [VALID_API_KEYS |-> {}, NODE_ENV |-> "production"]
  /\ apiKeyCache = [t \in KeyTexts |-> None]
  /\ rateLimitMap = [h \in Hashes |-> None]
  /\ calls = [c \in Callers |-> None]
  /\ ret = None
  /\ hist = [ticks |-> 0, ran |-> 0, let |-> 0]
  /\ hasBody = FALSE
  /\ upstream = <<>>
  /\ rpos = 0
  /\ pending = <<>>
  /\ pc = "unused"
  /\ resWrites = <<>>
  /\ resEnded = 0
  /\ ctlQueue = <<>>
  /\ edgeState = "unused"
  /\ request = None
  /\ response = None
  /\ built = None
  /\ route = None

InFlight == Cardinality({c \in Callers : IsSome(calls[c])})

\* const now = Date.now(); const keyHash = await hashApiKey(apiKey)
edgeCheckRateLimitCall(c, apiKey) ==
  /\ ~IsSome(calls[c])
  /\ LET limit == rateLimitMap[hashApiKey(apiKey)] IN
       IF windowOver(limit, clock) THEN TRUE
       ELSE Get(limit).count + InFlight < MaxCount
  /\ calls' = [calls EXCEPT ![c] = Some([apiKey |-> apiKey, now |-> clock])]
  /\ UNCHANGED <<clock, env, apiKeyCache, rateLimitMap, ret, hist>>
  /\ UNCHANGED <<streamVars, transcodeVars, routeVars>>

\* the continuation after the await, up to the return
edgeCheckRateLimitResume(c) ==
  /\ IsSome(calls[c])
  /\ LET now == Get(calls[c]).now
         apiKey == Get(calls[c]).apiKey
         keyHash == hashApiKey(apiKey)
         limit == rateLimitMap[keyHash]
         after == windowAfter(limit, now)
     IN  /\ rateLimitMap' = [rateLimitMap EXCEPT ![keyHash] = Some(after)]
         /\ ret' = Some([op |-> "checkRate", key |-> apiKey.text, at |-> now,
                         allowed |-> allowedAt(after.count),
                         remaining |-> remainingAt(after.count),
                         resetAt |-> after.resetAt,
                         before |-> limit, window |-> after])
         /\ hist' = [hist EXCEPT
                       !.ran = IF windowOver(limit, now) THEN 1 ELSE @ + 1,
                       !.let = (IF windowOver(limit, now) THEN 0 ELSE @)
                               + (IF allowedAt(after.count) THEN 1 ELSE 0)]
  /\ calls' = [calls EXCEPT ![c] = None]
  /\ UNCHANGED <<clock, env, apiKeyCache>>
  /\ UNCHANGED <<streamVars, transcodeVars, routeVars>>

\* The sweep of the edge build; a swept window takes its bookkeeping along.
EdgeSweep ==
  /\ apiKeyCache' = sweptCache(apiKeyCache, clock)
  /\ rateLimitMap' = sweptLimits(rateLimitMap, clock)
  /\ hist' = IF rateLimitMap' = rateLimitMap THEN hist
             ELSE [hist EXCEPT !.ran = 0, !.let = 0]
  /\ UNCHANGED <<clock, env, calls, ret>>
  /\ UNCHANGED <<streamVars, transcodeVars, routeVars>>

NextEdgeRate ==
  \/ \E c \in Callers, k \in RateKeys : edgeCheckRateLimitCall(c, k)
  \/ \E c \in Callers : edgeCheckRateLimitResume(c)
  \/ \E d \in {1, RATE_WINDOW} : Tick(d)
  \/ EdgeSweep

(***************************************************************************)
(* The admission layer as a whole (lib/auth.ts): validateApiKey and        *)
(* checkRateLimit called for several keys in any order, the clock and the  *)
(* sweep in between.  The rate table is a Map from strings: an entry can   *)
(* sit under any string, a digest or a key text.  hist carries a reference *)
(* run: the two tables and the returned value as they are when the same    *)
(* calls are made at the same times and the sweep never runs.  ret records *)
(* the call, and whether the entry it looked for was one the sweep had     *)
(* taken away (evicted).                                                   *)
(***************************************************************************)
MaxCalls == 4       \* admission calls in one behaviour

AdmissionKeys == {KeyTest, KeyListed}

\* validateApiKey on a given cache: the value returned and the cache left.
validateOn(cache, apiKey, now, e) ==
  LET cached == cache[apiKey.text]
      hit == cacheHit(cached, now)
      isValid == IF hit THEN Get(cached).valid ELSE policy(apiKey, e)
  IN  [value |-> isValid,
       cache |-> IF hit THEN cache
                 ELSE [cache EXCEPT ![apiKey.text] =
                         Some([valid |-> isValid, expiresAt |-> now + CACHE_TTL])]]

\* checkRateLimit on a given table: the object returned and the table left.
checkRateOn(limits, apiKey, now) ==
  LET keyHash == hashApiKey(apiKey)
      limit == limits[keyHash]
      after == windowAfter(limit, now)
  IN  [value |-> [allowed |-> allowedAt(after.count),
                  remaining |-> remainingAt(after.count),
                  resetAt |-> after.resetAt],
       limits |-> [limits EXCEPT ![keyHash] = Some(after)]]

\* The tables are empty, or the process has already let in RATE_LIMIT - 1
\* calls of the test key at time 0.
InitAdmission ==
  /\ clock = 0
  /\ env \in [VALID_API_KEYS : {{}, {KeyListed.text}}, NODE_ENV : {"production"}]
  /\ apiKeyCache = [t \in KeyTexts |-> None]
  /\ rateLimitMap \in
       { [s \in Hashes \cup KeyTexts |-> None],
         [s \in Hashes \cup KeyTexts |->
            IF s = hashApiKey(KeyTest)
              THEN Some([count |-> RATE_LIMIT - 1, resetAt |-> RATE_WINDOW])
              ELSE None] }
  /\ calls = None
  /\ ret = None
  /\ hist = [ticks |-> 0, n |-> 0, cache |-> apiKeyCache,
             limits |-> rateLimitMap, ret |-> None]
  /\ hasBody = FALSE
  /\ upstream = <<>>
  /\ rpos = 0
  /\ pending = <<>>
  /\ pc = "unused"
  /\ resWrites = <<>>
  /\ resEnded = 0
  /\ ctlQueue = <<>>
  /\ edgeState = "unused"
  /\ request = None
  /\ response = None
  /\ built = None
  /\ route = None

AdmissionValidate(apiKey) ==
  /\ hist.n < MaxCalls
  /\ LET run == validateOn(apiKeyCache, apiKey, clock, env)
         ref == validateOn(hist.cache, apiKey, clock, env)
     IN  /\ apiKeyCache' = run.cache
         /\ ret' = Some([op |-> "validate", key |-> apiKey.text, at |-> clock,
                         value |-> run.value,
                         evicted |-> /\ ~IsSome(apiKeyCache[apiKey.text])
                                     /\ IsSome(hist.cache[apiKey.text])])
         /\ hist' = [hist EXCEPT !.n = @ + 1, !.cache = ref.cache,
                                 !.ret = Some(ref.value)]
  /\ UNCHANGED <<clock, env, rateLimitMap, calls>>
  /\ UNCHANGED <<streamVars, transcodeVars, routeVars>>

AdmissionCheckRate(apiKey) ==
  /\ hist.n < MaxCalls
  /\ LET run == checkRateOn(rateLimitMap, apiKey, clock)
         ref == checkRateOn(hist.limits, apiKey, clock)
     IN  /\ rateLimitMap' = run.limits
         /\ ret' = Some([op |-> "checkRate", key |-> apiKey.text, at |-> clock,
                         value |-> run.value,
                         evicted |-> /\ ~IsSome(rateLimitMap[hashApiKey(apiKey)])
                                     /\ IsSome(hist.limits[hashApiKey(apiKey)])])
         /\ hist' = [hist EXCEPT !.n = @ + 1, !.limits = ref.limits,
                                 !.ret = Some(ref.value)]
  /\ UNCHANGED <<clock, env, apiKeyCache, calls>>
  /\ UNCHANGED <<streamVars, transcodeVars, routeVars>>

NextAdmission ==
  \/ \E k \in AdmissionKeys : AdmissionValidate(k)
  \/ \E k \in AdmissionKeys : AdmissionCheckRate(k)
  \/ \E d \in {RATE_WINDOW, CACHE_TTL} : Tick(d)
  \/ Sweep

(***************************************************************************)
(* The request and response transcoders (AnthropicRequestHandler).         *)
(***************************************************************************)
\* A message content: a string, or an array of content blocks.
Str(text) == [isString |-> TRUE, text |-> text, blocks |-> <<>>]
Blocks(blocks) == [isString |-> FALSE, text |-> "", blocks |-> blocks]
TextBlock(text) == [type |-> "text", text |-> Some(text)]
ImageBlock == [type |-> "image", text |-> None]
ToolUseBlock == [type |-> "tool_use", text |-> None]
ImagePlaceholder == "[Image content not supported in this proxy]"

\* Mutant of join: the parts are glued without the newline.
RECURSIVE joinNoSeparator(_)
joinNoSeparator(parts) ==
  IF parts = <<>> THEN ""
  ELSE Head(parts) \o joinNoSeparator(Tail(parts))

RECURSIVE join(_)
join(parts) ==
  IF parts = <<>> THEN ""
  ELSE IF Len(parts) = 1 THEN Head(parts)
  ELSE Head(parts) \o "\n" \o join(Tail(parts))

\* the parts one block pushes on textParts
blockParts(block) ==
  (IF block.type = "text" /\ IsSome(block.text) /\ Get(block.text) # ""
     THEN <<Get(block.text)>> ELSE <<>>)
  \o (IF block.type = "image" THEN <<ImagePlaceholder>> ELSE <<>>)

RECURSIVE textPartsOf(_)
textPartsOf(blocks) ==
  IF blocks = <<>> THEN <<>>
  ELSE blockParts(Head(blocks)) \o textPartsOf(Tail(blocks))

extractContent(content) ==
  IF content.isString THEN content.text ELSE join(textPartsOf(content.blocks))

\* if (this.request.system): an absent and an empty system are both falsy
systemMessages(system) ==
  IF IsSome(system) /\ Get(system) # ""
    THEN <<[role |-> "system", content |-> Get(system)]>>
    ELSE <<>>

\* Mutant of transformToOpenRouter: the system message is pushed after the
\* messages.
transformToOpenRouterSystemLast(req) ==
  [ model |-> req.model,
    messages |-> [i \in 1..Len(req.messages) |->
                    [role |-> req.messages[i].role,
                     content |-> extractContent(req.messages[i].content)]]
                 \o systemMessages(req.system),
    stream |-> IF IsSome(req.stream) THEN Get(req.stream) ELSE FALSE,
    max_tokens |-> req.max_tokens,
    temperature |-> req.temperature,
    top_p |-> req.top_p,
    stop |-> req.stop_sequences ]

transformToOpenRouter(req) ==
  [ model |-> req.model,
    messages |-> systemMessages(req.system)
                 \o [i \in 1..Len(req.messages) |->
                       [role |-> req.messages[i].role,
                        content |-> extractContent(req.messages[i].content)]],
    stream |-> IF IsSome(req.stream) THEN Get(req.stream) ELSE FALSE,
    max_tokens |-> req.max_tokens,
    temperature |-> req.temperature,
    top_p |-> req.top_p,
    \* if (this.request.stop_sequences): every array, the empty one too, is truthy
    stop |-> req.stop_sequences ]

\* Mutant of transformToAnthropicResponse: the upstream's model is echoed.
transformToAnthropicResponseEcho(req, openRouterResponse) ==
  IF openRouterResponse.choices = <<>>
    THEN [threw |-> TRUE, value |-> None]
    ELSE LET choice == openRouterResponse.choices[1] IN
      [threw |-> FALSE,
       value |-> Some(
         [id |-> openRouterResponse.id,
          type |-> "message",
          role |-> "assistant",
          content |-> <<[type |-> "text", text |-> choice.message.content]>>,
          model |-> openRouterResponse.model,
          stop_reason |-> handlerMapFinishReason(choice.finish_reason),
          stop_sequence |-> None,
          usage |->
            [input_tokens |-> IF IsSome(openRouterResponse.usage)
                                THEN Get(openRouterResponse.usage).prompt_tokens
                                ELSE 0,
             output_tokens |-> IF IsSome(openRouterResponse.usage)
                                 THEN Get(openRouterResponse.usage).completion_tokens
                                 ELSE 0]])]

\* Mutant of transformToAnthropicResponse: a response without a choice is
\* answered with an empty message instead of an error.
transformToAnthropicResponseLenient(req, openRouterResponse) ==
  [threw |-> FALSE,
   value |-> Some(
     [id |-> openRouterResponse.id,
      type |-> "message",
      role |-> "assistant",
      content |-> IF openRouterResponse.choices = <<>> THEN <<>>
                  ELSE <<[type |-> "text",
                          text |-> openRouterResponse.choices[1].message.content]>>,
      model |-> req.model,
      stop_reason |-> IF openRouterResponse.choices = <<>> THEN "end_turn"
                      ELSE handlerMapFinishReason(
                             openRouterResponse.choices[1].finish_reason),
      stop_sequence |-> None,
      usage |-> [input_tokens |-> 0, output_tokens |-> 0]])]

\* Reading choices[0].message of a response without a choice throws a TypeError.
transformToAnthropicResponse(req, openRouterResponse) ==
  IF openRouterResponse.choices = <<>>
    THEN [threw |-> TRUE, value |-> None]
    ELSE LET choice == openRouterResponse.choices[1] IN
      [threw |-> FALSE,
       value |-> Some(
         [id |-> openRouterResponse.id,
          type |-> "message",
          role |-> "assistant",
          content |-> <<[type |-> "text", text |-> choice.message.content]>>,
          model |-> req.model,
          stop_reason |-> handlerMapFinishReason(choice.finish_reason),
          stop_sequence |-> None,
          usage |->
            [input_tokens |-> IF IsSome(openRouterResponse.usage)
                                THEN Get(openRouterResponse.usage).prompt_tokens
                                ELSE 0,
             output_tokens |-> IF IsSome(openRouterResponse.usage)
                                 THEN Get(openRouterResponse.usage).completion_tokens
                                 ELSE 0]])]

MessageKinds ==
  { [role |-> "user", content |-> Str("Hi")],
    [role |-> "assistant", content |-> Str("Hello")],
    [role |-> "user",
     content |-> Blocks(<<TextBlock("Look"), ImageBlock, TextBlock(""), ToolUseBlock>>)] }

MessageLists == UNION { [1..n -> MessageKinds] : n \in 0..MaxMsgs }

Requests ==
  [ model : {"anthropic/claude-3.5-sonnet"},
    messages : MessageLists,
    system : {None, Some(""), Some("Be terse")},
    max_tokens : {None, Some(0)},
    temperature : {None, Some(1)},
    top_p : {None},
    stop_sequences : {None, Some(<<>>), Some(<<"END">>)},
    stream : {None, Some(TRUE)} ]

UpstreamChoice(reason) ==
  [index |-> 0, message |-> [role |-> "assistant", content |-> "Hi there"],
   finish_reason |-> reason]

Responses ==
  [ id : {"gen-1"},
    model : {"anthropic/claude-3.5-sonnet", "anthropic/claude-3.5-sonnet:beta"},
    choices : { <<>>, <<UpstreamChoice("stop")>>, <<UpstreamChoice("length")>>,
                <<UpstreamChoice("content_filter")>>, <<UpstreamChoice("tool_calls")>>,
                <<UpstreamChoice("stop"), UpstreamChoice("length")>> },
    usage : {None, Some([prompt_tokens |-> 3, completion_tokens |-> 7])} ]

InitTranscode ==
  /\ request \in Requests
  /\ response \in Responses
  /\ built = [kind |-> "nothing"]
  /\ hasBody = FALSE
  /\ upstream = <<>>
  /\ rpos = 0
  /\ pending = <<>>
  /\ pc = "unused"
  /\ resWrites = <<>>
  /\ resEnded = 0
  /\ ctlQueue = <<>>
  /\ edgeState = "unused"
  /\ clock = 0
  /\ env = None
  /\ apiKeyCache = None
  /\ rateLimitMap = None
  /\ calls = None
  /\ ret = None
  /\ hist = None
  /\ route = None

\* handler.transformToOpenRouter()
ToTarget ==
  /\ built' = [kind |-> "target", value |-> transformToOpenRouter(request)]
  /\ UNCHANGED <<request, response>>
  /\ UNCHANGED <<streamVars, admissionVars, routeVars>>

\* handler.transformToAnthropicResponse(openRouterData)
ToSource ==
  /\ built' = [kind |-> "source",
               result |-> transformToAnthropicResponse(request, response)]
  /\ UNCHANGED <<request, response>>
  /\ UNCHANGED <<streamVars, admissionVars, routeVars>>

\* The finish reasons an upstream can send: the three of the table, and
\* others ("tool_calls", "error", a reason spelled as its own image).
FinishReasons ==
  {"stop", "length", "content_filter", "tool_calls", "error", "end_turn"}

\* the three copies of mapFinishReason applied to one reason
MapReason(r) ==
  /\ built' = [kind |-> "reason", reason |-> r,
               handler |-> handlerMapFinishReason(r),
               express |-> mapFinishReason(r),
               edge |-> edgeMapFinishReason(r)]
  /\ UNCHANGED <<request, response>>
  /\ UNCHANGED <<streamVars, admissionVars, routeVars>>

NextTranscode ==
  \/ ToTarget
  \/ ToSource
  \/ \E r \in FinishReasons : MapReason(r)

(***************************************************************************)
(* The Express route app.post('/api/v1/messages').  One request is served  *)
(* at a time; the handler is cut at its awaits (validateApiKey,            *)
(* checkRateLimit, fetch), between which the clock may move and the sweep  *)
(* may run.  route.log lists, in order, the calls the handler made for the *)
(* request and what they returned; route.res is the answer sent.           *)
(***************************************************************************)
RouteKeys == {None, Some(KeyTest), Some(KeyShort)}

RouteBodies ==
  [ model : {"anthropic/claude-3.5-sonnet"},
    messages : {<<[role |-> "user", content |-> Str("Hi")]>>},
    system : {None},
    max_tokens : {None},
    temperature : {None},
    top_p : {None},
    stop_sequences : {None},
    stream : {None, Some(TRUE)} ]

\* What fetch can bring: a rejection (network error), a response that is not
\* ok with its status, or an ok response with its JSON data.
RouteUpstreams ==
  { [kind |-> "rejects", status |-> 0, data |-> None] }
  \cup { [kind |-> "notOk", status |-> 502, data |-> None] }
  \cup { [kind |-> "ok", status |-> 200,
          data |-> Some([id |-> "gen-1", model |-> "anthropic/claude-3.5-sonnet",
                         choices |-> cs, usage |-> None])] :
            cs \in {<<>>, <<UpstreamChoice("stop")>>} }

Res(status, error, body, remaining) ==
  [status |-> status, error |-> error, body |-> body, remaining |-> remaining]

InitRoute ==
  /\ clock = 0
  /\ env = [VALID_API_KEYS |-> {}, NODE_ENV |-> "production"]
  /\ apiKeyCache = [t \in KeyTexts |-> None]
  /\ rateLimitMap = [h \in Hashes |-> None]
  /\ calls = None
  /\ ret = None
  /\ hist = [ticks |-> 0]
  /\ request = None
  /\ response = None
  /\ built = None
  /\ route = [pc |-> "idle", apiKey |-> None, log |-> <<>>, res |-> None]
  /\ hasBody = FALSE
  /\ upstream = <<>>
  /\ rpos = 0
  /\ pending = <<>>
  /\ pc = "unused"
  /\ resWrites = <<>>
  /\ resEnded = 0
  /\ ctlQueue = <<>>
  /\ edgeState = "unused"

\* Mutant of passesAuth: the answer of validateApiKey is ignored.
passesAuthAlways(isValid) == TRUE

\* if (!isValid) return 401
passesAuth(isValid) == isValid

\* if (!rateLimit.allowed) return 429
passesRate(allowed) == allowed

\* A request arrives; without an x-api-key header it is answered 401 at once.
RouteReceive(key, body) ==
  /\ route.pc \in {"idle", "done"}
  /\ request' = body
  /\ response' = None
  /\ built' = None
  /\ route' = IF ~IsSome(key)
                THEN [pc |-> "done", apiKey |-> key, log |-> <<>>,
                      res |-> Some(Res(401, "authentication_error", None, None))]
                ELSE [pc |-> "validate", apiKey |-> key, log |-> <<>>,
                      res |-> None]
  /\ UNCHANGED <<admissionVars, streamVars>>

\* const isValid = await validateApiKey(apiKey); if (!isValid) return 401
RouteValidate ==
  /\ route.pc = "validate"
  /\ LET apiKey == Get(route.apiKey)
         cached == apiKeyCache[apiKey.text]
         hit == cacheHit(cached, clock)
         isValid == IF hit THEN Get(cached).valid ELSE policy(apiKey, env)
     IN  /\ apiKeyCache' =
               IF hit THEN apiKeyCache
               ELSE [apiKeyCache EXCEPT ![apiKey.text] =
                       Some([valid |-> isValid, expiresAt |-> clock + CACHE_TTL])]
         /\ route' =
               [route EXCEPT
                  !.log = Append(@, [call |-> "validateApiKey", ok |-> isValid]),
                  !.pc = IF passesAuth(isValid) THEN "rate" ELSE "done",
                  !.res = IF passesAuth(isValid) THEN None
                          ELSE Some(Res(401, "authentication_error", None, None))]
  /\ UNCHANGED <<clock, env, rateLimitMap, calls, ret, hist>>
  /\ UNCHANGED <<streamVars, transcodeVars>>

\* const rateLimit = await checkRateLimit(apiKey); 429 when not allowed,
\* else the rate headers are set, the request is transcoded and fetch is
\* called.
RouteCheckRate ==
  /\ route.pc = "rate"
  /\ LET apiKey == Get(route.apiKey)
         keyHash == hashApiKey(apiKey)
         limit == rateLimitMap[keyHash]
         after == windowAfter(limit, clock)
         allowed == allowedAt(after.count)
         remaining == remainingAt(after.count)
     IN  /\ (IF windowOver(limit, clock) THEN TRUE
              ELSE Get(limit).count < MaxCount)
         /\ rateLimitMap' = [rateLimitMap EXCEPT ![keyHash] = Some(after)]
         /\ IF passesRate(allowed)
              THEN /\ built' = [kind |-> "target",
                                value |-> transformToOpenRouter(request)]
                   /\ route' =
                        [route EXCEPT
                           !.log = Append(@, [call |-> "checkRateLimit",
                                              ok |-> allowed]),
                           !.pc = "fetch",
                           !.res = Some(Res(0, "", None, Some(remaining)))]
              ELSE /\ built' = built
                   /\ route' =
                        [route EXCEPT
                           !.log = Append(@, [call |-> "checkRateLimit",
                                              ok |-> allowed]),
                           !.pc = "done",
                           !.res = Some(Res(429, "rate_limit_error", None,
                                            Some(remaining)))]
  /\ UNCHANGED <<clock, env, apiKeyCache, calls, ret, hist>>
  /\ UNCHANGED <<request, response, streamVars>>

\* await fetch(...) settles; the rest of the handler runs to the answer:
\* the upstream status when the response is not ok, the stream when
\* streaming was asked for, else the transcoded response; whatever is thrown
\* on the way is caught and answered 500 internal_error.
RouteFetch(up) ==
  /\ route.pc = "fetch"
  /\ response' = up
  /\ LET isStreaming == IF IsSome(request.stream) THEN Get(request.stream)
                         ELSE FALSE
         remaining == Get(route.res).remaining
         t == transformToAnthropicResponse(request, Get(up.data))
         answer ==
           IF up.kind = "rejects"
             THEN Res(500, "internal_error", None, remaining)
           ELSE IF up.kind = "notOk"
             THEN Res(up.status, "api_error", None, remaining)
           ELSE IF isStreaming
             THEN Res(200, "", Some([type |-> "event-stream"]), remaining)
           ELSE IF t.threw
             THEN Res(500, "internal_error", None, remaining)
           ELSE Res(200, "", t.value, remaining)
     IN  route' = [route EXCEPT
                     !.log = Append(@, [call |-> "fetch", ok |-> up.kind = "ok"]),
                     !.pc = "done",
                     !.res = Some(answer)]
  /\ UNCHANGED <<request, built, admissionVars, streamVars>>

NextRoute ==
  \/ \E key \in RouteKeys, body \in RouteBodies : RouteReceive(key, body)
  \/ RouteValidate
  \/ RouteCheckRate
  \/ \E up \in RouteUpstreams : RouteFetch(up)
  \/ \E d \in {RATE_WINDOW, CACHE_TTL} : Tick(d)
  \/ Sweep

(***************************************************************************)
(* The specifications.                                                     *)
(***************************************************************************)
SpecStream == InitStream /\ [][NextStream]_vars
\* The handler runs on from its call (getReader is synchronous), and the
\* upstream body is finite: after the chunks it delivers, `await
\* reader.read()` reports done or rejects.
SpecStreamLive ==
  SpecStream /\ WF_vars(GetReader) /\ WF_vars(ReadDone \/ ReadThrows)
SpecValidate == InitValidate /\ [][NextValidate]_vars
SpecRate == InitRate /\ [][NextRate]_vars
SpecEdgeRate == InitEdgeRate /\ [][NextEdgeRate]_vars
SpecAdmission == InitAdmission /\ [][NextAdmission]_vars
SpecTranscode == InitTranscode /\ [][NextTranscode]_vars
SpecRoute == InitRoute /\ [][NextRoute]_vars

(***************************************************************************)
(* Properties of the stream transcoders (SpecStream).                      *)
(***************************************************************************)
\* The finish-reason table of the specification.
ExpectedStopReason(r) ==
  IF r = "stop" THEN "end_turn"
  ELSE IF r = "length" THEN "max_tokens"
  ELSE IF r = "content_filter" THEN "stop_sequence"
  ELSE r

\* the data frames among the frames written: the source events
IsEventFrame(f) == IsSome(f.json)
EventsOf(frames) == SelectSeq(frames, IsEventFrame)

\* In a step that reads a chunk (rpos' > rpos): the lines of that chunk.
ChunkLines == split(decode(pending, SubSeq(upstream, rpos + 1, rpos')).text)

IsDoneLine(line) == startsWithData(line) /\ slice6(line) = DonePayload
StopFrame == DataFrame([type |-> "message_stop"])

\* C1: chunk-boundary invariance.  However the bytes of the stream were
\* split into chunks, once the whole stream has been read the events written
\* are those written when the stream arrives as one chunk (a line cut by a
\* chunk boundary is processed once, whole).
C1_ChunkBoundaryInvariance ==
  (pc = "returned" /\ rpos = Len(upstream) /\ edgeState = "terminated") =>
    /\ EventsOf(resWrites) = EventsOf(Concat(ExpressLoop(split(Utf8(upstream)))))
    /\ EventsOf(ctlQueue) = EventsOf(Concat(EdgeLoop(split(Utf8(upstream)))))

\* C2: each `data: [DONE]` line of a chunk makes the transcoder write
\* exactly one message_stop data frame and nothing else for that line (the
\* other lines of the chunk write what they write).
C2_DoneWritesOneStop ==
  [][rpos' > rpos =>
       LET lines == ChunkLines IN
       /\ resWrites' = resWrites \o Concat(
            [i \in 1..Len(lines) |->
               IF IsDoneLine(lines[i]) THEN <<StopFrame>> ELSE ExpressLine(lines[i])])
       /\ ctlQueue' = ctlQueue \o Concat(
            [i \in 1..Len(lines) |->
               IF IsDoneLine(lines[i]) THEN <<StopFrame>> ELSE EdgeLine(lines[i])])
    ]_vars

\* C3: [DONE] is terminal within a call.  When a chunk holds a `data: [DONE]`
\* line, the events written for the chunk are those of its lines up to and
\* including that line: no later line of the chunk produces an event.
C3_DoneIsTerminal ==
  [][rpos' > rpos =>
       LET lines == ChunkLines IN
       \A d \in 1..Len(lines) :
         IsDoneLine(lines[d]) =>
           /\ EventsOf(resWrites') =
                EventsOf(resWrites \o Concat(ExpressLoop(SubSeq(lines, 1, d))))
           /\ EventsOf(ctlQueue') =
                EventsOf(ctlQueue \o Concat(EdgeLoop(SubSeq(lines, 1, d))))
    ]_vars

\* C4: a data line whose payload is not valid JSON writes nothing and does
\* not abort the stream.  Every chunk, whatever was skipped before it, writes
\* exactly what its lines write with the malformed lines taken out, and the
\* handlers keep reading.
NotMalformed(line) == ~IsMalformed(line)
C4_MalformedLineIsSkipped ==
  [][rpos' > rpos =>
       LET lines == ChunkLines
           kept == SelectSeq(lines, NotMalformed)
       IN  /\ resWrites' = resWrites \o Concat(ExpressLoop(kept))
           /\ ctlQueue' = ctlQueue \o Concat(EdgeLoop(kept))
           /\ pc' = "reading" /\ resEnded' = 0 /\ edgeState' = "open"
    ]_vars

\* A stream with a malformed frame followed by a valid frame has been read
\* to its end, and the valid frame's event is what was written.
C4_Witness ==
  /\ upstream = DataFrameBytes(MalformedPayload) \o DataFrameBytes(ContentPayload)
  /\ pc = "returned" /\ rpos = Len(upstream)
  /\ resWrites = <<DataFrame(ContentBlockDelta("Hi"))>>
  /\ EventsOf(ctlQueue) = <<DataFrame(ContentBlockDelta("Hi"))>>

\* a is b with some elements left out (the order kept)
RECURSIVE IsSubseq(_, _)
IsSubseq(a, b) ==
  IF a = <<>> THEN TRUE
  ELSE IF b = <<>> THEN FALSE
  ELSE IF Head(a) = Head(b) THEN IsSubseq(Tail(a), Tail(b))
  ELSE IsSubseq(a, Tail(b))

\* The events of the frames of the whole stream, in the order of the frames:
\* frame by frame, the event its line produces.
RECURSIVE ExpressEventsInOrder(_)
ExpressEventsInOrder(lines) ==
  IF lines = <<>> THEN <<>>
  ELSE EventsOf(ExpressLine(Head(lines))) \o ExpressEventsInOrder(Tail(lines))

RECURSIVE EdgeEventsInOrder(_)
EdgeEventsInOrder(lines) ==
  IF lines = <<>> THEN <<>>
  ELSE EventsOf(EdgeLine(Head(lines))) \o EdgeEventsInOrder(Tail(lines))

IsPrefix(a, b) == Len(a) <= Len(b) /\ SubSeq(b, 1, Len(a)) = a

\* C14: the events are written in the order of the frames that produced
\* them, within a chunk and across chunks: at every moment the events written
\* are, in order, events of the frames of the stream (none overtakes an
\* earlier frame's event); what was written stays written in its place, and
\* events are written only in the step that reads their chunk, never held
\* back for a later one.
C14_EventsInFrameOrder ==
  /\ [](pc \in {"start", "reading", "returned"} =>
         /\ IsSubseq(EventsOf(resWrites),
                     ExpressEventsInOrder(split(Utf8(upstream))))
         /\ IsSubseq(EventsOf(ctlQueue),
                     EdgeEventsInOrder(split(Utf8(upstream)))))
  /\ [][/\ IsPrefix(resWrites, resWrites')
        /\ IsPrefix(ctlQueue, ctlQueue')
        /\ rpos' > rpos =>
             /\ EventsOf(resWrites') =
                  EventsOf(resWrites) \o ExpressEventsInOrder(ChunkLines)
             /\ EventsOf(ctlQueue') =
                  EventsOf(ctlQueue) \o EdgeEventsInOrder(ChunkLines)
        /\ rpos' = rpos => (resWrites' = resWrites /\ ctlQueue' = ctlQueue)
       ]_vars

\* A message frame followed by a content frame has been read to its end:
\* message_start was written before content_block_delta.
C14_Witness ==
  /\ upstream = DataFrameBytes(MessagePayload) \o DataFrameBytes(ContentPayload)
  /\ pc = "returned" /\ rpos = Len(upstream)
  /\ resWrites = <<DataFrame(MessageStart("gen-1", "upstream/model")),
                   DataFrame(ContentBlockDelta("Hi"))>>
  /\ EventsOf(ctlQueue) = resWrites

\* the message_delta frames among the frames written
IsMessageDelta(f) == IsSome(f.json) /\ Get(f.json).type = "message_delta"

\* a data line that parses to a frame whose choices[0] has a finish_reason
HasFinishReason(line) ==
  /\ startsWithData(line)
  /\ JSONparse(slice6(line)).ok
  /\ JSONparse(slice6(line)).value.choices # <<>>
  /\ IsSome(JSONparse(slice6(line)).value.choices[1].finish_reason)

\* the message_delta the specification asks for such a line
FinishDeltaOf(line) ==
  LET frame == JSONparse(slice6(line)).value IN
  DataFrame([type |-> "message_delta",
             delta |-> [stop_reason |->
                          ExpectedStopReason(Get(frame.choices[1].finish_reason)),
                        stop_sequence |-> None],
             usage |-> [output_tokens |->
                          IF IsSome(frame.usage)
                            THEN Get(frame.usage).completion_tokens ELSE 0]])

RECURSIVE FinishDeltas(_)
FinishDeltas(lines) ==
  IF lines = <<>> THEN <<>>
  ELSE (IF HasFinishReason(Head(lines)) THEN <<FinishDeltaOf(Head(lines))>>
        ELSE <<>>) \o FinishDeltas(Tail(lines))

\* C15: every parsed frame whose choices[0].finish_reason is present makes
\* the transcoder write a message_delta (stop_reason the mapped reason,
\* stop_sequence null, output_tokens the frame's completion_tokens or 0), also
\* when the frame carries a non-empty delta.content or a message: the
\* message_delta frames a chunk writes are those of its lines that have a
\* finish_reason.
C15_FinishReasonWritesMessageDelta ==
  [][rpos' > rpos =>
       /\ SelectSeq(resWrites', IsMessageDelta) =
            SelectSeq(resWrites, IsMessageDelta) \o FinishDeltas(ChunkLines)
       /\ SelectSeq(ctlQueue', IsMessageDelta) =
            SelectSeq(ctlQueue, IsMessageDelta) \o FinishDeltas(ChunkLines)
    ]_vars

\* C21: the two streaming implementations are the same core logic: fed the
\* same sequence of upstream chunks, the frames the Express handler has
\* written to the response are, at every moment, the frames the edge handler
\* has enqueued on its stream.
C21_SameOutputFrames == resWrites = ctlQueue

\* what the specification asks of one line that carries no data
PassThrough(line) == IF trimIsEmpty(line) THEN <<BlankFrame>> ELSE <<>>

\* C22: a blank input line is passed through to the output as a blank
\* separator line, and a non-blank line that does not start with `data: ` is
\* dropped without output: what a chunk writes is, line by line, a blank
\* line for a blank line, nothing for another line without the prefix, and
\* what the data line writes otherwise.
C22_BlankPassesOtherDropped ==
  [][rpos' > rpos =>
       LET lines == ChunkLines IN
       /\ resWrites' = resWrites \o Concat(
            [i \in 1..Len(lines) |->
               IF startsWithData(lines[i]) THEN ExpressLine(lines[i])
               ELSE PassThrough(lines[i])])
       /\ ctlQueue' = ctlQueue \o Concat(
            [i \in 1..Len(lines) |->
               IF startsWithData(lines[i]) THEN EdgeLine(lines[i])
               ELSE PassThrough(lines[i])])
    ]_vars

\* C24: handleStreamingResponse ends the client response exactly once on
\* every path and eventually (no body, the stream finishes with or without a
\* [DONE] line, reading throws): end() has been called once when the handler
\* has returned and not before, never twice; after it nothing is written;
\* and the handler does return.
C24_EndsExactlyOnce ==
  /\ [](pc \in {"start", "reading", "returned"} =>
         /\ resEnded <= 1
         /\ (pc = "returned") <=> (resEnded = 1))
  /\ [][resEnded >= 1 => (resWrites' = resWrites /\ resEnded' = resEnded)]_vars
  /\ (pc = "start") ~> (pc = "returned" /\ resEnded = 1)

\* Reading threw in the middle of a stream, after a frame had been written:
\* the response was ended once.
C24_Witness ==
  /\ hasBody /\ pc = "returned" /\ edgeState = "errored"
  /\ 0 < rpos /\ rpos < Len(upstream)
  /\ resWrites # <<>>
  /\ resEnded = 1

(***************************************************************************)
(* Properties of the admission layer.                                      *)
(***************************************************************************)
Max0(n) == IF n > 0 THEN n ELSE 0
IsCall(op) == IsSome(ret) /\ Get(ret).op = op

\* C5 (SpecRate): the Nth checkRateLimit call of a key within one 60-second
\* window returns remaining = max(0, 100 - N) and allowed = (N <= 100).
C5_NthCallOfWindow ==
  IsCall("checkRate") =>
    LET r == Get(ret)
        n == hist.nth[r.key]
    IN  /\ r.remaining = Max0(100 - n)
        /\ r.allowed = (n <= 100)

\* The 101st call of a window has returned: rejected, nothing remaining.
C5_Witness ==
  /\ IsCall("checkRate")
  /\ hist.nth[Get(ret).key] = 101
  /\ ~Get(ret).allowed
  /\ Get(ret).remaining = 0

\* C6 (SpecRate): a call made after the resetAt of the window it finds
\* replaces the window with a fresh one (resetAt = now + 60000) and is call
\* number 1 of it (allowed, remaining 99), whatever the old count; a call made
\* not after resetAt keeps the window and its resetAt and adds one to its count.
C6_ResetOnlyAfterResetAt ==
  (IsCall("checkRate") /\ IsSome(Get(ret).before)) =>
    LET r == Get(ret)
        old == Get(r.before)
    IN  IF r.at > old.resetAt
          THEN /\ r.window = [count |-> 1, resetAt |-> r.at + 60000]
               /\ r.resetAt = r.at + 60000
               /\ r.allowed
               /\ r.remaining = 99
          ELSE /\ r.window = [count |-> old.count + 1, resetAt |-> old.resetAt]
               /\ r.resetAt = old.resetAt

\* A call made after the resetAt of a window that had run over the limit has
\* returned: it is allowed again.
C6_Witness ==
  /\ IsCall("checkRate")
  /\ IsSome(Get(ret).before)
  /\ Get(Get(ret).before).count > 100
  /\ Get(ret).at > Get(Get(ret).before).resetAt
  /\ Get(ret).allowed
  /\ Get(ret).remaining = 99

C8_AnyTwoCallsWithinTtl ==
  (IsCall("validate") /\ IsSome(Get(ret).prev)) =>
    LET r == Get(ret)
        first == Get(r.prev)
    IN  r.at - first.at < 5 * 60 * 1000 =>
          /\ r.value = first.value
          /\ ~r.evaluated
          /\ ~r.logged

\* C8 as amended: a validateApiKey call made less than 5 minutes after the
\* call that last evaluated the policy for the key returns the boolean of that
\* evaluation and does not evaluate the policy (nor log).
C8_CallWithinTtlOfEvaluation ==
  (IsCall("validate") /\ IsSome(Get(ret).prevEval)) =>
    LET r == Get(ret)
        first == Get(r.prevEval)
    IN  r.at - first.at < 5 * 60 * 1000 =>
          /\ r.value = first.value
          /\ ~r.evaluated
          /\ ~r.logged

\* The allow-listed key was validated, taken off the allow-list, and
\* validated again within the 5 minutes: the memoized true came back.
C8_Witness ==
  /\ IsCall("validate")
  /\ Get(ret).key = KeyListed.text
  /\ IsSome(Get(ret).prevEval)
  /\ Get(ret).at > Get(Get(ret).prevEval).at
  /\ Get(ret).at - Get(Get(ret).prevEval).at < 5 * 60 * 1000
  /\ env.VALID_API_KEYS = {}
  /\ Get(ret).value
  /\ ~Get(ret).evaluated

\* C16 (SpecRate): every checkRateLimit call adds exactly 1 to the count of
\* the key's window (of the fresh window when it resets), also when the call
\* is rejected: the count is not capped at the limit.  So once a call of a
\* window was rejected, every later call of the key is rejected until a call
\* made after resetAt.
C16_RejectedCallsAreCounted ==
  /\ [](IsCall("checkRate") =>
         LET r == Get(ret)
             fresh == ~IsSome(r.before) \/ r.at > Get(r.before).resetAt
         IN  r.window.count = (IF fresh THEN 0 ELSE Get(r.before).count) + 1)
  /\ [][(/\ IsCall("checkRate")
         /\ ~Get(ret).allowed
         /\ ret' # ret
         /\ Get(ret').at <= Get(ret).resetAt) => ~Get(ret').allowed]_vars

\* A call that found the window already over the limit has returned: it was
\* rejected and counted all the same.
C16_Witness ==
  /\ IsCall("checkRate")
  /\ IsSome(Get(ret).before)
  /\ Get(Get(ret).before).count = 101
  /\ Get(ret).at <= Get(Get(ret).before).resetAt
  /\ Get(ret).window.count = 102
  /\ ~Get(ret).allowed

\* C18 (SpecValidate): the validity memo has a fixed 5-minute lifetime.  A
\* validateApiKey call that finds no entry, or an entry with expiresAt <= now,
\* runs the policy and stores {valid, expiresAt = now + 5 min}, whether the
\* key is valid or not; a call that finds an entry with expiresAt > now
\* returns its value and leaves the entry, expiresAt included, as it is.  So
\* a call 5 minutes or more after the last evaluation evaluates again.
C18_FixedLifetimeMemo ==
  /\ [][hist'.n # hist.n =>
         LET r == Get(ret')
             old == apiKeyCache[r.key]
             fresh == IF IsSome(old) THEN Get(old).expiresAt > clock ELSE FALSE
         IN  /\ r.at = clock
             /\ ~fresh
                  => /\ r.evaluated
                     /\ apiKeyCache'[r.key] =
                          Some([valid |-> r.value,
                                expiresAt |-> clock + 5 * 60 * 1000])
             /\ fresh
                  => /\ ~r.evaluated
                     /\ r.value = Get(old).valid
                     /\ apiKeyCache'[r.key] = old
             /\ \A t \in KeyTexts \ {r.key} : apiKeyCache'[t] = apiKeyCache[t]
      ]_vars
  /\ []((IsCall("validate") /\ IsSome(Get(ret).prevEval)) =>
         (Get(ret).at - Get(Get(ret).prevEval).at >= 5 * 60 * 1000
            => Get(ret).evaluated))

\* An invalid key was refused from the memo within its 5 minutes, and at the
\* instant the entry expired the policy ran again.
C18_Witness ==
  /\ IsCall("validate")
  /\ Get(ret).key = KeyShort.text
  /\ IsSome(Get(ret).prev)
  /\ IsSome(Get(ret).prevEval)
  /\ Get(Get(ret).prev).at = 1
  /\ ~Get(Get(ret).prev).value
  /\ Get(ret).at = 5 * 60 * 1000
  /\ Get(ret).evaluated
  /\ apiKeyCache[KeyShort.text] =
       Some([valid |-> FALSE, expiresAt |-> 2 * 5 * 60 * 1000])

\* C23: the periodic sweep is observationally transparent.  Whatever
\* sweeps ran between the calls, every validate and checkRate call returns
\* the value (valid; allowed, remaining, resetAt) that the same calls made at
\* the same times return when no sweep ever runs.
C23_SweepIsTransparent ==
  (IsSome(ret) /\ Get(ret).op \in {"validate", "checkRate"}) =>
     Get(ret).value = Get(hist.ret)

\* A checkRate call found that the sweep had taken its window away (the run
\* without sweeps still holds it), and has returned.
C23_Witness ==
  /\ IsCall("checkRate")
  /\ Get(ret).evicted
  /\ Get(ret).at = clock
  /\ ~IsSome(apiKeyCache[KeyListed.text])
  /\ IsSome(hist.cache[KeyListed.text])

\* the key a recorded call was made with
KeyOf(call) == CHOOSE k \in Keys : k.text = call.key

\* C25: rate windows are independent per key and the two tables are
\* independent of each other.  checkRate(k) changes the window stored under
\* hash(k) and nothing else: every other entry of the rate table and the
\* whole validity cache stay as they were; validate(k) changes at most the
\* validity entry of k and leaves the rate table as it was; different keys
\* have different hashes; and the rate table never holds an entry under a
\* raw key.
C25_TablesAndWindowsIndependent ==
  /\ [](\A t \in KeyTexts : ~IsSome(rateLimitMap[t]))
  /\ [](\A k1, k2 \in Keys : hashApiKey(k1) = hashApiKey(k2) => k1 = k2)
  /\ [][hist.n' = hist.n + 1 =>
         LET call == Get(ret')
             keyHash == hashApiKey(KeyOf(call))
             rateFrame ==
               /\ apiKeyCache' = apiKeyCache
               /\ rateLimitMap'[keyHash] # rateLimitMap[keyHash]
               /\ \A s \in DOMAIN rateLimitMap \ {keyHash} :
                     rateLimitMap'[s] = rateLimitMap[s]
             validateFrame ==
               /\ rateLimitMap' = rateLimitMap
               /\ \A t \in KeyTexts \ {call.key} :
                     apiKeyCache'[t] = apiKeyCache[t]
         IN  IF call.op = "checkRate" THEN rateFrame ELSE validateFrame
       ]_vars

\* checkRate of the listed key has just run: it has its window, the window
\* of the test key (99 calls) and the validity entry of the test key stand.
C25_Witness ==
  /\ IsCall("checkRate")
  /\ Get(ret).key = KeyListed.text
  /\ rateLimitMap[hashApiKey(KeyListed)] =
       Some([count |-> 1, resetAt |-> clock + RATE_WINDOW])
  /\ rateLimitMap[hashApiKey(KeyTest)] =
       Some([count |-> RATE_LIMIT - 1, resetAt |-> RATE_WINDOW])
  /\ IsSome(apiKeyCache[KeyTest.text])

(***************************************************************************)
(* Properties of the request and response transcoders (SpecTranscode).     *)
(***************************************************************************)
\* The messages of the target request from position `from` on are the source
\* messages, in order, roles unchanged, contents flattened.
RestIsSource(target, from) ==
  /\ Len(target.messages) = from - 1 + Len(request.messages)
  /\ \A i \in 1..Len(request.messages) :
       /\ target.messages[from - 1 + i].role = request.messages[i].role
       /\ target.messages[from - 1 + i].content =
            extractContent(request.messages[i].content)

SystemFirst(target) ==
  /\ Len(target.messages) = Len(request.messages) + 1
  /\ target.messages[1] = [role |-> "system", content |-> Get(request.system)]
  /\ RestIsSource(target, 2)

C10_ModelOfRequest ==
  (built.kind = "source" /\ response.choices # <<>>) =>
    /\ ~built.result.threw
    /\ Get(built.result.value).model = request.model

\* A response whose echoed model differs from the request's was transcoded.
C10_Witness ==
  /\ built.kind = "source"
  /\ response.choices # <<>>
  /\ response.model # request.model
  /\ ~built.result.threw
  /\ Get(built.result.value).model = request.model

\* C12 (SpecTranscode): the finish-reason mapping is total and the same in
\* the response transcoder and the two stream transcoders: stop -> end_turn,
\* length -> max_tokens, content_filter -> stop_sequence, every other reason
\* to itself; the response transcoder's stop_reason is that mapping of
\* choices[0].finish_reason.
C12_FinishReasonMapping ==
  /\ built.kind = "reason" =>
       /\ built.handler = ExpectedStopReason(built.reason)
       /\ built.express = ExpectedStopReason(built.reason)
       /\ built.edge = ExpectedStopReason(built.reason)
  /\ (built.kind = "source" /\ response.choices # <<>>) =>
       Get(built.result.value).stop_reason =
         ExpectedStopReason(response.choices[1].finish_reason)

\* A reason outside the table went through the three copies unchanged.
C12_Witness ==
  /\ built.kind = "reason"
  /\ built.reason = "tool_calls"
  /\ built.handler = "tool_calls"
  /\ built.express = "tool_calls"
  /\ built.edge = "tool_calls"

\* C13 (SpecTranscode): the target request has a `stop` field only if the
\* source request's stop_sequences is present and non-empty, and then it is
\* that list; without stop_sequences, or with an empty list, there is no
\* `stop`.
C13_StopOnlyIfNonEmpty ==
  built.kind = "target" =>
    IF IsSome(request.stop_sequences) /\ Get(request.stop_sequences) # <<>>
      THEN built.value.stop = request.stop_sequences
      ELSE built.value.stop = None

\* The parts of a block array as the specification counts them: every text
\* block its text, every image block the placeholder, in array order.
RECURSIVE PartsOfBlocks(_)
PartsOfBlocks(blocks) ==
  IF blocks = <<>> THEN <<>>
  ELSE (IF Head(blocks).type = "text" THEN <<Get(Head(blocks).text)>>
        ELSE IF Head(blocks).type = "image" THEN <<ImagePlaceholder>>
        ELSE <<>>)
       \o PartsOfBlocks(Tail(blocks))

\* The same, a text block whose text is empty contributing no part.
RECURSIVE PartsOfNonEmptyBlocks(_)
PartsOfNonEmptyBlocks(blocks) ==
  IF blocks = <<>> THEN <<>>
  ELSE (IF Head(blocks).type = "text" /\ Get(Head(blocks).text) # ""
          THEN <<Get(Head(blocks).text)>>
        ELSE IF Head(blocks).type = "image" THEN <<ImagePlaceholder>>
        ELSE <<>>)
       \o PartsOfNonEmptyBlocks(Tail(blocks))

\* parts joined with a newline between two neighbours
RECURSIVE JoinedByNewline(_)
JoinedByNewline(parts) ==
  IF parts = <<>> THEN ""
  ELSE IF Len(parts) = 1 THEN parts[1]
  ELSE parts[1] \o "\n" \o JoinedByNewline(Tail(parts))

\* the content of the target message made from source message i
TargetContent(i) ==
  built.value.messages[Len(built.value.messages) - Len(request.messages) + i].content

\* C20 as stated: every source message content is flattened to one string:
\* a string unchanged, a block array as its text blocks' texts and the
\* placeholder for its image blocks, joined with a newline in array order,
\* one part for each text and each image block.
C20_EveryTextAndImageBlockIsAPart ==
  built.kind = "target" =>
    \A i \in 1..Len(request.messages) :
      LET content == request.messages[i].content IN
      IF content.isString
        THEN TargetContent(i) = content.text
        ELSE TargetContent(i) = JoinedByNewline(PartsOfBlocks(content.blocks))

\* C20 as amended: the same, with one part for each text block whose text is
\* not empty and each image block.
C20_EveryNonEmptyTextAndImageBlockIsAPart ==
  built.kind = "target" =>
    \A i \in 1..Len(request.messages) :
      LET content == request.messages[i].content IN
      IF content.isString
        THEN TargetContent(i) = content.text
        ELSE TargetContent(i) =
               JoinedByNewline(PartsOfNonEmptyBlocks(content.blocks))

\* A string message and a block message (text, image, empty text, tool_use)
\* were flattened: the block message to its text and the placeholder.
C20_Witness ==
  /\ built.kind = "target"
  /\ Len(request.messages) = 2
  /\ request.messages[1].content = Str("Hi")
  /\ request.messages[2].content =
       Blocks(<<TextBlock("Look"), ImageBlock, TextBlock(""), ToolUseBlock>>)
  /\ TargetContent(1) = "Hi"
  /\ TargetContent(2) = "Look\n[Image content not supported in this proxy]"

(***************************************************************************)
(* Properties of the Express route (SpecRoute).                            *)
(***************************************************************************)
Answered == route.pc = "done" /\ IsSome(route.res)
Called(name) == \E i \in 1..Len(route.log) : route.log[i].call = name
CalledWith(name, ok, before) ==
  \E j \in 1..(before - 1) : route.log[j] = [call |-> name, ok |-> ok]

\* C11: when the upstream's answer has no choice, transcoding it fails, no
\* source response is produced, and the request ends with a 5xx error to the
\* client.
C11_NoChoiceEndsIn5xx ==
  (/\ Answered
   /\ IsSome(response)
   /\ response.kind = "ok"
   /\ Get(response.data).choices = <<>>
   /\ ~IsSome(request.stream)) =>
     /\ transformToAnthropicResponse(request, Get(response.data)).threw
     /\ Get(route.res).status >= 500
     /\ Get(route.res).status <= 599
     /\ Get(route.res).error = "internal_error"
     /\ Get(route.res).body = None

\* An admitted, non-streaming request whose upstream answer was ok but had
\* no choice has been answered 500.
C11_Witness ==
  /\ Answered
  /\ route.log = <<[call |-> "validateApiKey", ok |-> TRUE],
                   [call |-> "checkRateLimit", ok |-> TRUE],
                   [call |-> "fetch", ok |-> TRUE]>>
  /\ Get(response.data).choices = <<>>
  /\ ~IsSome(request.stream)
  /\ Get(route.res).status = 500

\* C17: per request the route runs validate -> checkRate -> upstream call in
\* sequence: each at most once, checkRateLimit only after validateApiKey
\* returned true, fetch only after checkRateLimit returned allowed; a request
\* answered 401 or 429 made no upstream call, and a rate window's count
\* changes only in the checkRateLimit step of a request whose key was
\* validated.
C17_OneSequentialPipeline ==
  /\ [](LET log == route.log IN
        /\ \A i, j \in 1..Len(log) : log[i].call = log[j].call => i = j
        /\ \A i \in 1..Len(log) :
             /\ log[i].call = "checkRateLimit" =>
                  CalledWith("validateApiKey", TRUE, i)
             /\ log[i].call = "fetch" =>
                  /\ CalledWith("checkRateLimit", TRUE, i)
                  /\ CalledWith("validateApiKey", TRUE, i)
        /\ ~IsSome(route.apiKey) => log = <<>>
        /\ (Answered /\ Get(route.res).status \in {401, 429}) => ~Called("fetch")
        /\ (Answered /\ Get(route.res).status = 401) => ~Called("checkRateLimit"))
  /\ [][\A h \in Hashes :
          (IsSome(rateLimitMap'[h]) /\ rateLimitMap'[h] # rateLimitMap[h]) =>
            /\ route.pc = "rate"
            /\ IsSome(route.apiKey)
            /\ h = hashApiKey(Get(route.apiKey))
            /\ route.log = <<[call |-> "validateApiKey", ok |-> TRUE]>>
            /\ Len(route'.log) = 2
       ]_vars

\* The 101st request of a window was rejected: validated, metered once,
\* answered 429 without an upstream call.
C17_Witness ==
  /\ Answered
  /\ Get(route.res).status = 429
  /\ route.log = <<[call |-> "validateApiKey", ok |-> TRUE],
                   [call |-> "checkRateLimit", ok |-> FALSE]>>
  /\ Get(rateLimitMap[hashApiKey(KeyTest)]).count = 101

\* C19: a sweep at time now (the only step that changes a table while the
\* request in service, its answer and the clock stay as they are) evicts
\* from both tables the entries past their expiry and only those: an entry with
\* expiresAt < now, a window with resetAt < now is gone afterwards; a validity
\* entry that would still be a hit (expiresAt > now) and a window that
\* checkRateLimit would not reset (resetAt >= now) are kept unchanged; no
\* entry appears.
C19_SweepEvictsExactlyTheExpired ==
  [][(UNCHANGED <<route, request, response, built>> /\ clock' = clock) =>
       /\ \A t \in KeyTexts :
            LET old == apiKeyCache[t] IN
            IF ~IsSome(old) THEN apiKeyCache'[t] = None
            ELSE /\ Get(old).expiresAt < clock => apiKeyCache'[t] = None
                 /\ Get(old).expiresAt > clock => apiKeyCache'[t] = old
       /\ \A h \in Hashes :
            LET old == rateLimitMap[h] IN
            IF ~IsSome(old) THEN rateLimitMap'[h] = None
            ELSE /\ Get(old).resetAt < clock => rateLimitMap'[h] = None
                 /\ Get(old).resetAt >= clock => rateLimitMap'[h] = old
    ]_vars

\* A request was served, its rate window ran out and was swept, while the
\* validity entry of its key, not yet expired, is still in the cache.
C19_Witness ==
  /\ Answered
  /\ Get(route.res).status = 200
  /\ route.apiKey = Some(KeyTest)
  /\ rateLimitMap[hashApiKey(KeyTest)] = None
  /\ IsSome(apiKeyCache[KeyTest.text])
  /\ Get(apiKeyCache[KeyTest.text]).expiresAt > clock
  /\ clock > RATE_WINDOW

=============================================================================
